---- MODULE Spec2Model ----
(***************************************************************************)
(* Model of packages/building-utils/index-html/loader-script.js: the       *)
(* generator of the loader script of an index.html, and the behaviour of   *)
(* the script it generates when a browser runs it.                         *)
(*                                                                         *)
(* Source text is modelled as a sequence of string pieces (tokens); the    *)
(* text is their concatenation, Text(tokens).  A JavaScript value that is  *)
(* not a string is modelled by one of the marker strings below; an         *)
(* optional argument is <<>> when it is not passed and <<v>> when it is.   *)
(***************************************************************************)
EXTENDS Integers, Sequences, FiniteSets, TLC

(* ------------------------------------------------------------------ *)
(* JavaScript values                                                  *)
(* ------------------------------------------------------------------ *)
undefined == "<undefined>"
jsNull == "<null>"
jsTrue == "<true>"
jsFalse == "<false>"

\* An argument that was not passed (or passed as undefined), and one that was.
Absent == <<>>
Given(v) == <<v>>

\* ToBoolean of the values the model uses.
Falsy(v) == v \in {undefined, jsNull, jsFalse, ""}

\* String(v), as a template literal converts an interpolated value.
JsString(v) ==
    CASE v = undefined -> "undefined"
      [] v = jsNull -> "null"
      [] v = jsTrue -> "true"
      [] v = jsFalse -> "false"
      [] OTHER -> v

\* The outcome of a call: a returned value or a thrown error.
Returned(v) == [threw |-> FALSE, value |-> v]
Threw(e) == [threw |-> TRUE, value |-> <<e>>]

(* ------------------------------------------------------------------ *)
(* Token helpers                                                      *)
(* ------------------------------------------------------------------ *)
Range(s) == {s[i] : i \in 1..Len(s)}

RECURSIVE Text(_)
Text(tokens) ==
    IF tokens = <<>> THEN "" ELSE Head(tokens) \o Text(Tail(tokens))

RECURSIVE Flatten(_)
Flatten(parts) ==
    IF parts = <<>> THEN <<>> ELSE Head(parts) \o Flatten(Tail(parts))

\* Array.prototype.join over pieces that are themselves token sequences.
RECURSIVE JoinComma(_)
JoinComma(parts) ==
    IF parts = <<>> THEN <<>>
    ELSE IF Len(parts) = 1 THEN parts[1]
    ELSE parts[1] \o <<",">> \o JoinComma(Tail(parts))

SeqsUpTo(S, n) == UNION {[1..k -> S] : k \in 0..n}

(* ------------------------------------------------------------------ *)
(* Bounds and input sets                                              *)
(* ------------------------------------------------------------------ *)
MaxFiles == 2
MaxPolyfills == 2

\* entries.type: the three strategies, a member of Object.prototype, and a
\* name the table does not know.
Types == {"script", "module", "system", "toString", "amd"}
File == {"a.js", "b.js"}
FileLists == SeqsUpTo(File, MaxFiles)
LegacyFileLists == SeqsUpTo({"legacy.js"}, MaxFiles)
Flags == {undefined, jsFalse, jsTrue, jsNull}

Entries == [type : Types, files : FileLists, polyfillDynamicImport : Flags]
LegacyEntries ==
    [type : Types, files : LegacyFileLists, polyfillDynamicImport : {undefined, jsFalse}]

fetchPolyfill ==
    [name |-> "fetch", test |-> "!('fetch' in window)", module |-> undefined]
webcomponentsPolyfill ==
    [name |-> "webcomponents", test |-> "!('attachShadow' in Element.prototype)",
     module |-> jsTrue]
coreJsPolyfill == [name |-> "core-js", test |-> undefined, module |-> jsFalse]
emptyTestPolyfill == [name |-> "intersection-observer", test |-> "", module |-> undefined]

PolyfillSet == {fetchPolyfill, webcomponentsPolyfill, coreJsPolyfill, emptyTestPolyfill}
OptPolyfills(S) == {Absent} \cup {Given(l) : l \in SeqsUpTo(S, MaxPolyfills)}
Configs == {"hashed", "plain"}
PublicPaths == {undefined, "/static/"}

\* The inputs of createLoaderScript: one file per configuration.
LoaderEntries == [type : Types, files : {<<"a.js">>}, polyfillDynamicImport : {undefined}]
LoaderLegacy ==
    {Absent} \cup {Given(l) : l \in [type : Types, files : {<<"legacy.js">>},
                                     polyfillDynamicImport : {undefined}]}

\* The inputs of the scripts that are run: configurations whose script parses.
RunEntries ==
    [type : {"script", "module", "amd"}, files : {<<"a.js">>},
     polyfillDynamicImport : {undefined}]
RunLegacy ==
    {Absent, Given([type |-> "script", files |-> <<"legacy.js">>,
                    polyfillDynamicImport |-> undefined])}
RunPolyfillSet == {fetchPolyfill, webcomponentsPolyfill, coreJsPolyfill}

(* ------------------------------------------------------------------ *)
(* ./utils (not part of the modelled file)                            *)
(* ------------------------------------------------------------------ *)
\* The path cleaner: a string determined by the path and the public path.
cleanImportPath(path, publicPath) ==
    "cleanImportPath(" \o path \o "," \o JsString(publicPath) \o ")"

\* The filename resolver: a string determined by the polyfill and the config.
polyfillFilename(polyfill, polyfillsConfig) ==
    "polyfillFilename(" \o polyfill.name \o "," \o polyfillsConfig \o ")"

(* ------------------------------------------------------------------ *)
(* loader-script.js                                                   *)
(* ------------------------------------------------------------------ *)
loadScriptFunction ==
    "\n  function loadScript(src, module) {\n"
    \o "    return new Promise(function (resolve, reject) {\n"
    \o "      document.head.appendChild(Object.assign(\n"
    \o "        document.createElement('script'),\n"
    \o "        { src: src, onload: resolve, onerror: reject },\n"
    \o "        module ? { type: 'module' } : undefined\n"
    \o "      ));\n"
    \o "    });\n"
    \o "  }\n\n"

\* Mutant: the legacy configuration is not looked at.
createLoadScriptFunction_NoLegacy(entries, legacyEntries, polyfills) ==
    IF polyfills # Absent /\ Len(polyfills[1]) > 0
    THEN <<loadScriptFunction>>
    ELSE IF entries.type = "script"
    THEN <<loadScriptFunction>>
    ELSE <<>>

createLoadScriptFunction(entries, legacyEntries, polyfills) ==
    IF polyfills # Absent /\ Len(polyfills[1]) > 0
    THEN <<loadScriptFunction>>
    ELSE IF entries.type = "script"
            \/ (legacyEntries # Absent /\ legacyEntries[1].type = "script")
    THEN <<loadScriptFunction>>
    ELSE <<>>

asArrayLiteral(arr) ==
    <<"[">> \o JoinComma([i \in 1..Len(arr) |-> <<"'", arr[i], "'">>]) \o <<"]">>

\* The three creators share one shape; fnName is the function the code calls.
LoadExpression(fnName, files) ==
    IF Len(files) = 1
    THEN <<fnName, "('", files[1], "')">>
    ELSE asArrayLiteral(files)
         \o <<".forEach(function (entry) { ", fnName, "(entry); })">>

\* Mutant: any falsy flag selects the native import.
importFunction_Falsy(polyfillDynamicImport) ==
    IF Falsy(polyfillDynamicImport) THEN "import" ELSE "window.importShim"

importFunction(polyfillDynamicImport) ==
    IF polyfillDynamicImport = jsFalse THEN "import" ELSE "window.importShim"

\* entryLoaderCreators[type](files, polyfillDynamicImport).  The table is an
\* object literal: besides its own three keys, a lookup finds the members of
\* Object.prototype (toString), and any other key yields undefined, whose
\* call throws a TypeError.
entryLoaderCreators(type, files, polyfillDynamicImport) ==
    CASE type = "script" -> Returned(LoadExpression("loadScript", files))
      [] type = "module" ->
            Returned(LoadExpression(importFunction(polyfillDynamicImport), files))
      [] type = "system" -> Returned(LoadExpression("System.import", files))
      [] type = "toString" -> Returned(<<"[object Object]">>)
      [] OTHER -> Threw("TypeError")

MapImportPath(files, publicPath) ==
    [i \in 1..Len(files) |-> cleanImportPath(files[i], publicPath)]

noModuleCheck == "'noModule' in HTMLScriptElement.prototype ? "

\* Mutant: the legacy creator is given the legacy flag.
LegacyLoad_WithFlag(legacy, publicPath) ==
    entryLoaderCreators(legacy.type, MapImportPath(legacy.files, publicPath),
                        legacy.polyfillDynamicImport)

\* The legacy creator is called with the files alone (line 78).
LegacyLoad(legacy, publicPath) ==
    entryLoaderCreators(legacy.type, MapImportPath(legacy.files, publicPath), undefined)

\* Mutant: the branches of the noModule check are swapped.
createEntriesLoaderFunction_Swapped(entries, legacyEntries, publicPath) ==
    LET load == entryLoaderCreators(entries.type,
                                    MapImportPath(entries.files, publicPath),
                                    entries.polyfillDynamicImport)
    IN  IF legacyEntries = Absent
        THEN IF load.threw THEN load ELSE Returned(load.value \o <<";">>)
        ELSE LET loadLegacy == LegacyLoad(legacyEntries[1], publicPath)
             IN  IF load.threw THEN load
                 ELSE IF loadLegacy.threw THEN loadLegacy
                 ELSE Returned(<<noModuleCheck>> \o loadLegacy.value \o <<" : ">>
                               \o load.value \o <<";">>)

createEntriesLoaderFunction(entries, legacyEntries, publicPath) ==
    LET load == entryLoaderCreators(entries.type,
                                    MapImportPath(entries.files, publicPath),
                                    entries.polyfillDynamicImport)
    IN  IF legacyEntries = Absent
        THEN IF load.threw THEN load ELSE Returned(load.value \o <<";">>)
        ELSE LET loadLegacy == LegacyLoad(legacyEntries[1], publicPath)
             IN  IF load.threw THEN load
                 ELSE IF loadLegacy.threw THEN loadLegacy
                 ELSE Returned(<<noModuleCheck>> \o load.value \o <<" : ">>
                               \o loadLegacy.value \o <<";">>)

awaitPolyfills ==
    "polyfills.length ? Promise.all(polyfills).then(loadEntries) : loadEntries();"

\* Mutant: loadEntries is always called directly.
createExecuteLoadEntries_Direct(polyfills) == <<"loadEntries()">>

\* Mutant: the polyfills array is always consulted.
createExecuteLoadEntries_Always(polyfills) == <<awaitPolyfills>>

\* Mutant: an empty polyfills sequence counts as polyfills.
createExecuteLoadEntries_NoLength(polyfills) ==
    IF polyfills # Absent THEN <<awaitPolyfills>> ELSE <<"loadEntries()">>

createExecuteLoadEntries(polyfills) ==
    IF polyfills # Absent /\ Len(polyfills[1]) # 0
    THEN <<awaitPolyfills>>
    ELSE <<"loadEntries()">>

loadEntriesOpen == "\n  function loadEntries() {\n    "
loadEntriesClose == "\n  }\n\n  "

createEntriesLoader(entries, legacyEntries, polyfills, publicPath) ==
    LET loadEntriesFunction ==
            createEntriesLoaderFunction(entries, legacyEntries, publicPath)
        executeLoadEntries == createExecuteLoadEntries(polyfills)
    IN  IF loadEntriesFunction.threw THEN loadEntriesFunction
        ELSE Returned(<<loadEntriesOpen>> \o loadEntriesFunction.value
                      \o <<loadEntriesClose>> \o executeLoadEntries \o <<"\n">>)

polyfillsDeclaration == "  var polyfills = [];\n"

\* Mutant: a polyfill without a test is not skipped.
PolyfillLine_NoSkip(polyfill, polyfillsConfig, publicPath) ==
    <<"  if (", JsString(polyfill.test), ") { polyfills.push(loadScript('",
      JsString(publicPath), "polyfills/",
      polyfillFilename(polyfill, polyfillsConfig), ".js", "', ",
      IF Falsy(polyfill.module) THEN "false" ELSE "true", ")) }\n">>

\* One emitted line of createPolyfillsLoader; nothing for a polyfill without test.
PolyfillLine(polyfill, polyfillsConfig, publicPath) ==
    IF Falsy(polyfill.test) THEN <<>>
    ELSE <<"  if (", polyfill.test, ") { polyfills.push(loadScript('",
           JsString(publicPath), "polyfills/",
           polyfillFilename(polyfill, polyfillsConfig), ".js", "', ",
           IF Falsy(polyfill.module) THEN "false" ELSE "true", ")) }\n">>

createPolyfillsLoader(polyfills, polyfillsConfig, publicPath) ==
    IF polyfills = Absent THEN <<>>
    ELSE <<polyfillsDeclaration>>
         \o Flatten([i \in 1..Len(polyfills[1]) |->
                        PolyfillLine(polyfills[1][i], polyfillsConfig, publicPath)])

\* Terser.minify(code).code: the same program in another spelling.
TerserMinify(code) == <<"Terser.minify(">> \o code \o <<").code">>

\* The assembled source (the constant `code' of createLoaderScript).
LoaderSource(entries, legacyEntries, polyfills, polyfillsConfig, publicPath) ==
    LET entriesLoader == createEntriesLoader(entries, legacyEntries, polyfills, publicPath)
    IN  IF entriesLoader.threw THEN entriesLoader
        ELSE Returned(<<"(function() {">>
                      \o createLoadScriptFunction(entries, legacyEntries, polyfills)
                      \o createPolyfillsLoader(polyfills, polyfillsConfig, publicPath)
                      \o entriesLoader.value
                      \o <<"})();">>)

createLoaderScript(entries, legacyEntries, polyfills, polyfillsConfig, minified, publicPath) ==
    LET code == LoaderSource(entries, legacyEntries, polyfills, polyfillsConfig, publicPath)
        minify == IF minified = undefined THEN jsTrue ELSE minified
    IN  IF code.threw THEN code
        ELSE IF ~Falsy(minify) THEN Returned(TerserMinify(code.value))
        ELSE code

createPolyfillsLoaderScript(polyfills, polyfillsConfig, funcName, publicPath) ==
    LET name == IF funcName = undefined THEN "loadPolyfills" ELSE funcName
    IN  Returned(<<"function ", JsString(name), "() {", loadScriptFunction>>
                 \o createPolyfillsLoader(polyfills, polyfillsConfig, publicPath)
                 \o <<"return Promise.all(polyfills);\n", "}">>)

(* ------------------------------------------------------------------ *)
(* State                                                              *)
(* ------------------------------------------------------------------ *)
VARIABLES
    fn,         \* the function of the module that is called
    args,       \* its arguments
    pc,         \* "call", "returned", then the position of the running script
    code,       \* createLoaderScript's assembled source, before minification
    ret,        \* what the call returned or threw
    page,       \* the source of the script the browser runs
    line,       \* the next `if (<test>)' line of the running script
    polyfills,  \* the running script's polyfills array: the state of each load
    all,        \* the promise of Promise.all(polyfills)
    reaction,   \* whether .then(loadEntries) is registered and has not run
    calls       \* how many times loadEntries was invoked

vars == <<fn, args, pc, code, ret, page, line, polyfills, all, reaction, calls>>
genVars == <<fn, args>>
runVars == <<page, line, polyfills, all, reaction, calls>>

NotRunning ==
    /\ page = <<>>
    /\ line = 0
    /\ polyfills = <<>>
    /\ all = "none"
    /\ reaction = FALSE
    /\ calls = 0

NothingReturned ==
    /\ pc = "call"
    /\ code = <<>>
    /\ ret = Returned(<<>>)

(* ------------------------------------------------------------------ *)
(* The generator: one call of one function                            *)
(* ------------------------------------------------------------------ *)
CallSites ==
    [fn : {"entryLoaderCreators"}, args : [type : Types, files : FileLists,
                                           polyfillDynamicImport : Flags]]
    \cup [fn : {"createEntriesLoaderFunction"},
          args : [entries : Entries,
                  legacyEntries : {Absent} \cup {Given(l) : l \in LegacyEntries},
                  publicPath : PublicPaths]]
    \cup [fn : {"createPolyfillsLoader"},
          args : [polyfills : OptPolyfills(PolyfillSet), polyfillsConfig : Configs,
                  publicPath : PublicPaths]]
    \cup [fn : {"createLoaderScript"},
          args : [entries : LoaderEntries, legacyEntries : LoaderLegacy,
                  polyfills : OptPolyfills(PolyfillSet), polyfillsConfig : {"plain"},
                  minified : {undefined, jsTrue, jsFalse}, publicPath : {"/static/"}]]
    \cup [fn : {"createPolyfillsLoaderScript"},
          args : [polyfills : OptPolyfills(PolyfillSet), polyfillsConfig : {"plain"},
                  funcName : {undefined, "loadMyPolyfills"}, publicPath : {"/static/"}]]

Init ==
    /\ \E c \in CallSites : fn = c.fn /\ args = c.args
    /\ NothingReturned
    /\ NotRunning

ApplyEntryLoaderCreator ==
    /\ pc = "call" /\ fn = "entryLoaderCreators"
    /\ ret' = entryLoaderCreators(args.type, args.files, args.polyfillDynamicImport)
    /\ pc' = "returned"
    /\ UNCHANGED <<genVars, code, runVars>>

ApplyCreateEntriesLoaderFunction ==
    /\ pc = "call" /\ fn = "createEntriesLoaderFunction"
    /\ ret' = createEntriesLoaderFunction(args.entries, args.legacyEntries, args.publicPath)
    /\ pc' = "returned"
    /\ UNCHANGED <<genVars, code, runVars>>

ApplyCreatePolyfillsLoader ==
    /\ pc = "call" /\ fn = "createPolyfillsLoader"
    /\ ret' = Returned(createPolyfillsLoader(args.polyfills, args.polyfillsConfig,
                                              args.publicPath))
    /\ pc' = "returned"
    /\ UNCHANGED <<genVars, code, runVars>>

ApplyCreateLoaderScript ==
    /\ pc = "call" /\ fn = "createLoaderScript"
    /\ LET source == LoaderSource(args.entries, args.legacyEntries, args.polyfills,
                                  args.polyfillsConfig, args.publicPath)
       IN  code' = IF source.threw THEN <<>> ELSE source.value
    /\ ret' = createLoaderScript(args.entries, args.legacyEntries, args.polyfills,
                                 args.polyfillsConfig, args.minified, args.publicPath)
    /\ pc' = "returned"
    /\ UNCHANGED <<genVars, runVars>>

ApplyCreatePolyfillsLoaderScript ==
    /\ pc = "call" /\ fn = "createPolyfillsLoaderScript"
    /\ ret' = createPolyfillsLoaderScript(args.polyfills, args.polyfillsConfig,
                                          args.funcName, args.publicPath)
    /\ pc' = "returned"
    /\ UNCHANGED <<genVars, code, runVars>>

Next ==
    \/ ApplyEntryLoaderCreator
    \/ ApplyCreateEntriesLoaderFunction
    \/ ApplyCreatePolyfillsLoader
    \/ ApplyCreateLoaderScript
    \/ ApplyCreatePolyfillsLoaderScript

Spec == Init /\ [][Next]_vars

(* ------------------------------------------------------------------ *)
(* The generated script in the browser                                *)
(* ------------------------------------------------------------------ *)
\* What the running script does is read off its source.
ifOpen == "  if ("
returnAll == "return Promise.all(polyfills);\n"

\* The positions of the `if (<test>) { polyfills.push(loadScript(...)) }' lines.
RECURSIVE IfLinesFrom(_, _)
IfLinesFrom(source, i) ==
    IF i > Len(source) THEN <<>>
    ELSE IF source[i] = ifOpen THEN <<i>> \o IfLinesFrom(source, i + 1)
    ELSE IfLinesFrom(source, i + 1)

IfLines(source) == IfLinesFrom(source, 1)

\* The src argument of the loadScript call of the `if' line at position i: the
\* string literal between the quotes, '<publicPath>polyfills/<filename>.js'.
ScriptSrc(source, i) == source[i + 3] \o source[i + 4] \o source[i + 5] \o source[i + 6]

Defines(source, token) == token \in Range(source)

\* The browser runs the script createLoaderScript returned (minified or not,
\* the program `code'), or calls the function createPolyfillsLoaderScript declared.
StartScript ==
    /\ pc = "returned"
    /\ fn \in {"createLoaderScript", "createPolyfillsLoaderScript"}
    /\ ~ret.threw
    /\ page' = IF fn = "createLoaderScript" THEN code ELSE ret.value
    /\ line' = 1
    /\ pc' = "polyfills"
    /\ UNCHANGED <<genVars, code, ret, polyfills, all, reaction, calls>>

\* if (<test>) { polyfills.push(loadScript(src, module)) }: the browser decides
\* the test; loadScript appends the script element and returns a pending promise.
EvalTest ==
    /\ pc = "polyfills"
    /\ line <= Len(IfLines(page))
    /\ \E needed \in BOOLEAN :
          IF ~needed
          THEN pc' = pc /\ polyfills' = polyfills
          ELSE IF Defines(page, loadScriptFunction) /\ Defines(page, polyfillsDeclaration)
          THEN /\ polyfills' = Append(polyfills,
                      [src |-> ScriptSrc(page, IfLines(page)[line]), state |-> "pending"])
               /\ pc' = pc
          ELSE pc' = "threw" /\ polyfills' = polyfills
    /\ line' = line + 1
    /\ UNCHANGED <<genVars, code, ret, page, all, reaction, calls>>

\* The statement after the `if' lines: the call of loadEntries, direct or after
\* Promise.all(polyfills), or the return of Promise.all(polyfills).  Reading
\* polyfills where the script does not declare it throws a ReferenceError.
ExecuteStatement ==
    /\ pc = "polyfills"
    /\ line > Len(IfLines(page))
    /\ IF Defines(page, awaitPolyfills)
       THEN IF ~Defines(page, polyfillsDeclaration)
            THEN pc' = "threw" /\ UNCHANGED <<all, reaction, calls>>
            ELSE IF Len(polyfills) # 0
            THEN pc' = "idle" /\ all' = "pending" /\ reaction' = TRUE /\ calls' = calls
            ELSE pc' = "idle" /\ calls' = calls + 1 /\ UNCHANGED <<all, reaction>>
       ELSE IF Defines(page, "loadEntries()")
       THEN pc' = "idle" /\ calls' = calls + 1 /\ UNCHANGED <<all, reaction>>
       ELSE IF Defines(page, returnAll) /\ Defines(page, polyfillsDeclaration)
       THEN pc' = "idle" /\ all' = "pending" /\ UNCHANGED <<reaction, calls>>
       ELSE pc' = "threw" /\ UNCHANGED <<all, reaction, calls>>
    /\ UNCHANGED <<genVars, code, ret, page, line, polyfills>>

\* The script element's load event: onload resolves the promise of loadScript.
ScriptOnload ==
    /\ pc = "idle"
    /\ \E k \in 1..Len(polyfills) :
          /\ polyfills[k].state = "pending"
          /\ polyfills' = [polyfills EXCEPT ![k].state = "resolved"]
    /\ UNCHANGED <<genVars, pc, code, ret, page, line, all, reaction, calls>>

\* The script element's error event: onerror rejects it.
ScriptOnerror ==
    /\ pc = "idle"
    /\ \E k \in 1..Len(polyfills) :
          /\ polyfills[k].state = "pending"
          /\ polyfills' = [polyfills EXCEPT ![k].state = "rejected"]
    /\ UNCHANGED <<genVars, pc, code, ret, page, line, all, reaction, calls>>

\* Promise.all: rejected with the first rejection, fulfilled when every
\* element is fulfilled.
SettleAll ==
    /\ pc = "idle"
    /\ all = "pending"
    /\ IF \E k \in 1..Len(polyfills) : polyfills[k].state = "rejected"
       THEN all' = "rejected"
       ELSE /\ \A k \in 1..Len(polyfills) : polyfills[k].state = "resolved"
            /\ all' = "resolved"
    /\ UNCHANGED <<genVars, pc, code, ret, page, line, polyfills, reaction, calls>>

\* The reaction registered by .then(loadEntries) runs once, on fulfilment.
ThenLoadEntries ==
    /\ pc = "idle"
    /\ all = "resolved"
    /\ reaction
    /\ reaction' = FALSE
    /\ calls' = calls + 1
    /\ UNCHANGED <<genVars, pc, code, ret, page, line, polyfills, all>>

RunSites ==
    [fn : {"createLoaderScript"},
     args : [entries : RunEntries, legacyEntries : RunLegacy,
             polyfills : OptPolyfills(RunPolyfillSet), polyfillsConfig : {"plain"},
             minified : {undefined, jsFalse}, publicPath : {"/static/"}]]
    \cup [fn : {"createPolyfillsLoaderScript"},
          args : [polyfills : OptPolyfills(RunPolyfillSet), polyfillsConfig : {"plain"},
                  funcName : {undefined}, publicPath : {"/static/"}]]

RunInit ==
    /\ \E c \in RunSites : fn = c.fn /\ args = c.args
    /\ NothingReturned
    /\ NotRunning

RunNext ==
    \/ ApplyCreateLoaderScript
    \/ ApplyCreatePolyfillsLoaderScript
    \/ StartScript
    \/ EvalTest
    \/ ExecuteStatement
    \/ ScriptOnload
    \/ ScriptOnerror
    \/ SettleAll
    \/ ThenLoadEntries

\* The engine runs the script to completion and drains its promise jobs; the
\* network owes nothing.
RunSpec ==
    /\ RunInit
    /\ [][RunNext]_vars
    /\ WF_vars(EvalTest)
    /\ WF_vars(ExecuteStatement)
    /\ WF_vars(SettleAll)
    /\ WF_vars(ThenLoadEntries)

(* ------------------------------------------------------------------ *)
(* Properties                                                         *)
(* ------------------------------------------------------------------ *)
Strategies == {"script", "module", "system"}

\* The first position of token t in tokens, 0 when it does not occur.
RECURSIVE IndexFrom(_, _, _)
IndexFrom(tokens, t, i) ==
    IF i > Len(tokens) THEN 0
    ELSE IF tokens[i] = t THEN i
    ELSE IndexFrom(tokens, t, i + 1)

IndexOf(tokens, t) == IndexFrom(tokens, t, 1)
Count(tokens, t) == Cardinality({i \in 1..Len(tokens) : tokens[i] = t})

\* 'f1','f2',... as text.
RECURSIVE QuotedList(_)
QuotedList(files) ==
    IF files = <<>> THEN ""
    ELSE "'" \o Head(files) \o "'"
         \o (IF Len(files) = 1 THEN "" ELSE ",") \o QuotedList(Tail(files))

HasTest(polyfill) == ~Falsy(polyfill.test)
PolyfillsConfigured(a) == a.polyfills # Absent /\ Len(a.polyfills[1]) > 0
AllResolved == \A k \in 1..Len(polyfills) : polyfills[k].state = "resolved"
SomeRejected == \E k \in 1..Len(polyfills) : polyfills[k].state = "rejected"
ScriptStarted == fn = "createLoaderScript" /\ pc \in {"polyfills", "idle", "threw"}

\* C1: with a non-empty polyfills sequence, the generated script invokes
\* loadEntries only after every if-line has been evaluated and every triggered
\* polyfill load has resolved, and never once a triggered load has rejected.
C1_EntriesAfterPolyfills ==
    (fn = "createLoaderScript" /\ PolyfillsConfigured(args) /\ calls > 0)
        => /\ line > Len(IfLines(page))
           /\ AllResolved
           /\ ~SomeRejected

C1_Witness ==
    /\ fn = "createLoaderScript" /\ PolyfillsConfigured(args)
    /\ Len(polyfills) = 2
    /\ polyfills[1].src = "/static/polyfills/polyfillFilename(fetch,plain).js"
    /\ AllResolved
    /\ calls = 1

\* C2 (as claimed): for every polyfills argument, absent included,
\* createPolyfillsLoaderScript returns the unminified declaration of funcName
\* holding the loadScript helper, the polyfills-loading code and the final
\* return Promise.all(polyfills), and a call of that function returns a promise,
\* fulfilled only once every triggered load has resolved.
C2_PolyfillsFunctionReturnsPromise ==
    (fn = "createPolyfillsLoaderScript" /\ pc # "call")
        => /\ ~ret.threw
           /\ SubSeq(ret.value, 1, 4)
                = <<"function ",
                    IF args.funcName = undefined THEN "loadPolyfills" ELSE args.funcName,
                    "() {", loadScriptFunction>>
           /\ SubSeq(ret.value, 5, Len(ret.value) - 2)
                = createPolyfillsLoader(args.polyfills, args.polyfillsConfig,
                                        args.publicPath)
           /\ SubSeq(ret.value, Len(ret.value) - 1, Len(ret.value)) = <<returnAll, "}">>
           /\ pc # "threw"
           /\ pc = "idle" => all # "none"
           /\ all = "resolved" => AllResolved

\* C3: the loadEntries body is the modern expression and `;' without a legacy
\* configuration, and otherwise one noModule check with the modern expression
\* in its true branch and the legacy expression in its false branch.
C3_LoadEntriesBody ==
    (fn = "createEntriesLoaderFunction" /\ pc = "returned" /\ ~ret.threw)
        => LET modern == entryLoaderCreators(
                             args.entries.type,
                             MapImportPath(args.entries.files, args.publicPath),
                             args.entries.polyfillDynamicImport).value
               body == ret.value
               colon == 1 + Len(modern) + 1
           IN  IF args.legacyEntries = Absent
               THEN /\ body = modern \o <<";">>
                    /\ Count(body, noModuleCheck) = 0
               ELSE /\ Count(body, noModuleCheck) = 1
                    /\ body[1] = noModuleCheck
                    /\ SubSeq(body, 2, colon - 1) = modern
                    /\ body[colon] = " : "
                    /\ body[Len(body)] = ";"
                    /\ \E flag \in Flags :
                          SubSeq(body, colon + 1, Len(body) - 1)
                            = entryLoaderCreators(
                                  args.legacyEntries[1].type,
                                  MapImportPath(args.legacyEntries[1].files,
                                                args.publicPath),
                                  flag).value

C3_Witness ==
    /\ fn = "createEntriesLoaderFunction" /\ pc = "returned" /\ ~ret.threw
    /\ args.legacyEntries # Absent
    /\ args.entries.type = "module" /\ args.legacyEntries[1].type = "system"
    /\ Len(args.entries.files) = 2 /\ Len(args.legacyEntries[1].files) = 1
    /\ ret.value[1] = noModuleCheck

\* C4: the statement after the loadEntries declaration awaits Promise.all when
\* polyfills are configured and is a direct loadEntries() call when the
\* polyfills argument is absent or empty.
C4_ExecuteStatement ==
    (fn = "createLoaderScript" /\ pc = "returned" /\ ~ret.threw)
        => /\ Count(code, loadEntriesOpen) = 1
           /\ Count(code, loadEntriesClose) = 1
           /\ IndexOf(code, loadEntriesOpen) < IndexOf(code, loadEntriesClose)
           /\ code[IndexOf(code, loadEntriesClose) + 1]
                = IF PolyfillsConfigured(args) THEN awaitPolyfills ELSE "loadEntries()"
           /\ Count(code, awaitPolyfills) + Count(code, "loadEntries()") = 1

C4_Witness ==
    /\ fn = "createLoaderScript" /\ pc = "returned" /\ ~ret.threw
    /\ args.polyfills = Given(<<>>)
    /\ code[IndexOf(code, loadEntriesClose) + 1] = "loadEntries()"

\* C5: the assembled source defines loadScript exactly when a polyfill is
\* configured, or the entries, or the legacy entries when present, are of
\* type script.
C5_HelperEmitted ==
    (fn = "createLoaderScript" /\ pc = "returned" /\ ~ret.threw)
        => (Count(code, loadScriptFunction) = 1
              <=> \/ PolyfillsConfigured(args)
                  \/ args.entries.type = "script"
                  \/ (args.legacyEntries # Absent
                        /\ args.legacyEntries[1].type = "script"))
           /\ Count(code, loadScriptFunction) <= 1

C5_Witness ==
    /\ fn = "createLoaderScript" /\ pc = "returned" /\ ~ret.threw
    /\ args.entries.type = "module"
    /\ args.legacyEntries # Absent /\ args.legacyEntries[1].type = "script"
    /\ ~PolyfillsConfigured(args)
    /\ Count(code, loadScriptFunction) = 1

\* C6: createPolyfillsLoader returns the empty string without a polyfills
\* argument, and otherwise the declaration line followed by one `if' line per
\* polyfill that has a test, in input order.
C6_PolyfillsLoader ==
    (fn = "createPolyfillsLoader" /\ pc = "returned")
        => IF args.polyfills = Absent
           THEN Text(ret.value) = ""
           ELSE LET tested == SelectSeq(args.polyfills[1], HasTest)
                    out == ret.value
                IN  /\ out[1] = "  var polyfills = [];\n"
                    /\ Len(out) = 1 + 10 * Len(tested)
                    /\ \A j \in 1..Len(tested) :
                          Text(SubSeq(out, 10 * j - 8, 10 * j + 1))
                            = "  if (" \o tested[j].test
                              \o ") { polyfills.push(loadScript('"
                              \o JsString(args.publicPath) \o "polyfills/"
                              \o polyfillFilename(tested[j], args.polyfillsConfig)
                              \o ".js', "
                              \o (IF tested[j].module = jsTrue THEN "true" ELSE "false")
                              \o ")) }\n"

C6_Witness ==
    /\ fn = "createPolyfillsLoader" /\ pc = "returned"
    /\ args.polyfills = Given(<<webcomponentsPolyfill, coreJsPolyfill>>)
    /\ Len(ret.value) = 11

\* C7: the expression of a strategy calls loadScript, System.import, or, for
\* module, import exactly when polyfillDynamicImport is false and
\* window.importShim otherwise; it is F('<file>') for one file and otherwise
\* the array literal of the quoted paths with a forEach calling F per element.
C7_LoadExpression ==
    (fn = "entryLoaderCreators" /\ pc = "returned" /\ args.type \in Strategies)
        => LET F == CASE args.type = "script" -> "loadScript"
                      [] args.type = "system" -> "System.import"
                      [] args.type = "module" ->
                            IF args.polyfillDynamicImport = jsFalse
                            THEN "import" ELSE "window.importShim"
           IN  /\ ~ret.threw
               /\ Text(ret.value)
                    = IF Len(args.files) = 1
                      THEN F \o "('" \o args.files[1] \o "')"
                      ELSE "[" \o QuotedList(args.files)
                           \o "].forEach(function (entry) { " \o F \o "(entry); })"

C7_Witness ==
    /\ fn = "entryLoaderCreators" /\ pc = "returned"
    /\ args.type = "module" /\ args.polyfillDynamicImport = jsNull
    /\ args.files = <<"b.js", "a.js">>
    /\ Count(ret.value, "window.importShim") = 1

\* C8 (as claimed): with an entries type, or the type of a present legacy
\* configuration, that is none of script, module and system, createLoaderScript
\* throws and returns no code.
C8_UnknownTypeThrows ==
    (/\ fn = "createLoaderScript" /\ pc = "returned"
     /\ \/ args.entries.type \notin Strategies
        \/ (args.legacyEntries # Absent /\ args.legacyEntries[1].type \notin Strategies))
        => ret.threw /\ code = <<>>

\* C9: the loadEntries body does not depend on legacyEntries.polyfillDynamicImport,
\* and a legacy configuration of type module loads through window.importShim.
C9_LegacyIgnoresFlag ==
    (fn = "createEntriesLoaderFunction" /\ pc = "returned"
        /\ args.legacyEntries # Absent)
        => /\ \A flag \in Flags :
                 createEntriesLoaderFunction(
                     args.entries,
                     Given([args.legacyEntries[1] EXCEPT !.polyfillDynamicImport = flag]),
                     args.publicPath) = ret
           /\ (~ret.threw /\ args.legacyEntries[1].type = "module")
                 => LET legacyPart ==
                            SubSeq(ret.value, IndexOf(ret.value, " : ") + 1,
                                   Len(ret.value))
                    IN  /\ Count(legacyPart, "window.importShim") = 1
                        /\ Count(legacyPart, "import") = 0

C9_Witness ==
    /\ fn = "createEntriesLoaderFunction" /\ pc = "returned" /\ ~ret.threw
    /\ args.legacyEntries # Absent
    /\ args.legacyEntries[1].type = "module"
    /\ args.legacyEntries[1].polyfillDynamicImport = jsFalse
    /\ args.entries.type = "module" /\ args.entries.polyfillDynamicImport = jsFalse
    /\ Count(ret.value, "window.importShim") = 1

\* C10: the generated script invokes loadEntries at most once, and in every
\* run that starts and in which every triggered polyfill load resolves it
\* invokes loadEntries exactly once.
C10_EntriesLoadedOnce ==
    /\ [](calls <= 1)
    /\ (<>ScriptStarted /\ <>[]AllResolved) => <>[](calls = 1)

C10_Witness ==
    /\ fn = "createLoaderScript" /\ PolyfillsConfigured(args)
    /\ pc = "idle"
    /\ Len(IfLines(page)) = 2
    /\ Len(polyfills) = 0
    /\ calls = 1

====
